---- MODULE Spec2Model ----
(***************************************************************************)
(* A model of the token query service of src/src/polygonrpc.py: the       *)
(* coroutines get_decimals, get_balance, get_balance_batch,                *)
(* get_token_holders, get_last_transaction_date, get_top,                  *)
(* get_top_with_transactions and get_token_info, run by one asyncio event  *)
(* loop behind the handlers of src/src/main.py.                            *)
(*                                                                         *)
(* A step of the model is what one coroutine does between two points at    *)
(* which it really suspends: a contract call, an HTTP exchange with the    *)
(* explorer, asyncio.sleep, or asyncio.gather over at least one member.    *)
(* Awaiting a coroutine that returns without suspending (get_decimals      *)
(* with the cache set, gather over no member) does not yield to the loop,  *)
(* so it is part of the same step.                                         *)
(***************************************************************************)
EXTENDS Integers, Sequences, FiniteSets, TLC

VARIABLES
    decimals_cache,   \* the module global _decimals_cache
    token_decimals,   \* what the contract's decimals() answers (immutable on chain)
    req,              \* the top-level requests in flight, one record per slot
    now,              \* the event loop's clock, in tenths of a second
    explorer_log      \* the times at which a GET was sent to the explorer, in order

vars == <<decimals_cache, token_decimals, req, now, explorer_log>>

----------------------------------------------------------------------------
(* Bounds of the model.                                                    *)

NumReq == 2          \* request slots that run concurrently
MaxBatch == 2        \* longest address list given to get_balance_batch
MaxN == 2            \* largest n given to get_top / get_top_with_transactions
MaxDecimals == 1     \* the token's decimals is drawn from 0..MaxDecimals

(* asyncio.sleep(0.2), in tenths of a second.                              *)
PacingDelay == 2

Req == 1..NumReq

(* Python's None, where an int or nothing is held.                         *)
None == -1

----------------------------------------------------------------------------
(* Addresses.  The strings a caller or the explorer may supply, and the    *)
(* subset web3.is_address accepts.  "0xaa" is the all-lowercase spelling   *)
(* of the account whose checksummed spelling is "0xAa".                    *)

AddrStrings == {"0xaa", "0xBb", "0xCc", "not-an-address"}

IsAddressAcceptAll(a) == TRUE

IsAddress(a) == a \in {"0xaa", "0xAa", "0xBb", "0xCc"}

(* Web3.to_checksum_address on a string is_address accepts; on any other   *)
(* string it raises ValueError, which callers test with IsAddress first.   *)
ToChecksumAddress(a) == IF a = "0xaa" THEN "0xAa" ELSE a

(* The raw balances a balanceOf call may answer.                           *)
RawBalances == {0, 3, 5}

----------------------------------------------------------------------------
(* Python values.                                                          *)

Min(a, b) == IF a < b THEN a ELSE b
Max(a, b) == IF a > b THEN a ELSE b

(* seq[:n], for any integer n.                                             *)
PySlicePrefix(s, n) ==
    IF n >= 0 THEN SubSeq(s, 1, Min(n, Len(s)))
    ELSE SubSeq(s, 1, Max(0, Len(s) + n))

RECURSIVE Pow10(_)
Pow10(d) == IF d = 0 THEN 1 ELSE 10 * Pow10(d - 1)

(* A display balance: the quotient num/den with den a power of ten, kept   *)
(* in the one form that has no factor of ten common to num and den, so     *)
(* that equal quotients are equal values.                                  *)
RECURSIVE Quotient(_, _)
Quotient(num, den) ==
    IF den > 1 /\ num % 10 = 0 THEN Quotient(num \div 10, den \div 10)
    ELSE [num |-> num, den |-> den]

(* A division that would leave the decimals out.                           *)
DisplayBalanceIgnoresDecimals(raw, decimals) == Quotient(raw, 1)

(* balance / (10 ** decimals)                                              *)
DisplayBalance(raw, decimals) == Quotient(raw, Pow10(decimals))

(* The int 0 that stands for a failed member of a batch.                   *)
Zero == Quotient(0, 1)

Greater(a, b) == a.num * b.den > b.num * a.den

(* A member's outcome in the list asyncio.gather(return_exceptions=True)   *)
(* returns: the value it returned, or the exception it raised.             *)
(* val is the int, str the text, exc the exception's message; the list a   *)
(* coroutine returns is in list.                                           *)
IntResult(v) == [type |-> "int", val |-> v, str |-> <<>>, exc |-> "", list |-> <<>>]
StrResult(s) == [type |-> "str", val |-> 0, str |-> s, exc |-> "", list |-> <<>>]
ExcResult(e) == [type |-> "Exception", val |-> 0, str |-> <<>>, exc |-> e, list |-> <<>>]
ListResult(l) == [type |-> "list", val |-> 0, str |-> <<>>, exc |-> "", list |-> l]

IsInstance(x, t) == x.type = t

----------------------------------------------------------------------------
(* Text.  A Python str whose characters matter is a sequence of            *)
(* one-character strings.                                                  *)

DigitChars == <<"0", "1", "2", "3", "4", "5", "6", "7", "8", "9">>

IsDigit(c) == \E d \in 1..10 : DigitChars[d] = c

DigitValue(c) == (CHOOSE d \in 1..10 : DigitChars[d] = c) - 1

(* int(s) accepts a non-empty run of decimal digits (the explorer sends    *)
(* timeStamp as such a string) and raises ValueError otherwise.            *)
IntParses(s) == Len(s) > 0 /\ \A i \in 1..Len(s) : IsDigit(s[i])

RECURSIVE ParseInt(_)
ParseInt(s) ==
    IF Len(s) = 0 THEN 0
    ELSE 10 * ParseInt(SubSeq(s, 1, Len(s) - 1)) + DigitValue(s[Len(s)])

(* n written in decimal, zero-padded to width digits (%Y, %m, %d).         *)
RECURSIVE Padded(_, _)
Padded(n, width) ==
    IF width = 0 THEN <<>>
    ELSE Padded(n \div 10, width - 1) \o <<DigitChars[(n % 10) + 1]>>

(* The civil date of a day count since 1970-01-01, as datetime computes    *)
(* it in the proleptic Gregorian calendar.                                 *)
CivilFromDays(days) ==
    LET z   == days + 719468
        era == z \div 146097
        doe == z - era * 146097
        yoe == (doe - doe \div 1460 + doe \div 36524 - doe \div 146096) \div 365
        doy == doe - (365 * yoe + yoe \div 4 - yoe \div 100)
        mp  == (5 * doy + 2) \div 153
        d   == doy - (153 * mp + 2) \div 5 + 1
        m   == IF mp < 10 THEN mp + 3 ELSE mp - 9
        y   == yoe + era * 400 + (IF m <= 2 THEN 1 ELSE 0)
    IN  [year |-> y, month |-> m, day |-> d]

(* datetime.utcfromtimestamp(timestamp).strftime("%Y-%m-%d")               *)
Strftime(timestamp) ==
    LET c == CivilFromDays(timestamp \div 86400)
    IN  Padded(c.year, 4) \o <<"-">> \o Padded(c.month, 2) \o <<"-">> \o Padded(c.day, 2)

NoTransactionsFound ==
    <<"N", "o", " ", "t", "r", "a", "n", "s", "a", "c", "t", "i", "o", "n", "s",
      " ", "f", "o", "u", "n", "d">>

ErrorMarker == <<"E", "r", "r", "o", "r">>

----------------------------------------------------------------------------
(* What the explorer may answer.  http is the HTTP status, json whether    *)
(* the body parses, status and transactions the payload's "status" and     *)
(* "data"."transactions".  A transaction is a JSON object: a function      *)
(* from the keys it has.                                                   *)

Ts1970 == <<"0">>
Ts2024 == <<"1", "7", "0", "9", "2", "5", "1", "2", "0", "0">>

HolderTxLists ==
    { <<>>,
      <<[to |-> "0xCc"]>>,
      <<[from |-> "0xaa", to |-> "0xBb"]>>,
      <<[from |-> "0xaa", to |-> "0xBb"], [from |-> "0xBb", to |-> "0xCc"]>> }

ActivityTxLists ==
    { <<>>,
      <<[timeStamp |-> Ts2024], [timeStamp |-> Ts1970]>>,
      <<[hash |-> "0x1"]>> }

ExplorerResponses(txlists) ==
    { [http |-> 500, json |-> FALSE, status |-> "", transactions |-> <<>>],
      [http |-> 200, json |-> FALSE, status |-> "", transactions |-> <<>>],
      [http |-> 200, json |-> TRUE, status |-> "NOTOK", transactions |-> <<>>] }
    \cup { [http |-> 200, json |-> TRUE, status |-> "success", transactions |-> t] :
           t \in txlists }

ErrHttp == "Etherscan V2 API error: HTTP"
ErrJson == "Etherscan V2 API error: Failed to parse JSON"
ErrStatus == "Etherscan V2 API error: NOTOK"

(* The set get_token_holders collects from the transactions.               *)
HoldersOf(txs) ==
    { txs[i]["from"] : i \in { j \in 1..Len(txs) : "from" \in DOMAIN txs[j] } }
    \cup { txs[i]["to"] : i \in { j \in 1..Len(txs) : "to" \in DOMAIN txs[j] } }

(* list(holders): a set's elements in whatever order its iteration gives.  *)
ListsOf(S) ==
    { s \in [1..Cardinality(S) -> S] : \A i, j \in 1..Cardinality(S) : s[i] = s[j] => i = j }

(* A get_token_holders that would answer a failed exchange with no holder. *)
TokenHoldersOutcomesSwallowsFailure(resp) ==
    IF resp.http # 200 \/ ~resp.json \/ resp.status # "success"
    THEN {ListResult(<<>>)}
    ELSE { ListResult(l) : l \in ListsOf(HoldersOf(resp.transactions)) }

(* get_token_holders from the response on: what it raises, or returns.     *)
TokenHoldersOutcomes(resp) ==
    IF resp.http # 200 THEN {ExcResult(ErrHttp)}
    ELSE IF ~resp.json THEN {ExcResult(ErrJson)}
    ELSE IF resp.status # "success" THEN {ExcResult(ErrStatus)}
    ELSE { ListResult(l) : l \in ListsOf(HoldersOf(resp.transactions)) }

(* get_last_transaction_date from the response on.                         *)
LastTransactionDate(resp) ==
    IF resp.http # 200 THEN ExcResult(ErrHttp)
    ELSE IF ~resp.json THEN ExcResult(ErrJson)
    ELSE IF resp.status # "success" \/ resp.transactions = <<>>
         THEN StrResult(NoTransactionsFound)
    ELSE IF "timeStamp" \notin DOMAIN resp.transactions[1] THEN ExcResult("KeyError")
    ELSE IF ~IntParses(resp.transactions[1]["timeStamp"]) THEN ExcResult("ValueError")
    ELSE StrResult(Strftime(ParseInt(resp.transactions[1]["timeStamp"])))

----------------------------------------------------------------------------
(* The pure steps of get_balance_batch, get_top and                        *)
(* get_top_with_transactions.                                              *)

(* asyncio.gather with return_exceptions=True: the members' outcomes       *)
(* in the order of the members, whatever the order they completed in.      *)
GatherAsCompleted(tasks) ==
    [i \in 1..Len(tasks) |->
        tasks[CHOOSE j \in 1..Len(tasks) : tasks[j].finished = i].result]

Gather(tasks) == [i \in 1..Len(tasks) |-> tasks[i].result]

BalanceBatchResultAllOrNothing(balances, decimals) ==
    [i \in 1..Len(balances) |->
        IF \A j \in 1..Len(balances) : IsInstance(balances[j], "int")
        THEN DisplayBalance(balances[i].val, decimals)
        ELSE Zero]

(* [balance / (10 ** decimals) if isinstance(balance, int) else 0 ...]     *)
BalanceBatchResult(balances, decimals) ==
    [i \in 1..Len(balances) |->
        IF IsInstance(balances[i], "int")
        THEN DisplayBalance(balances[i].val, decimals)
        ELSE Zero]

(* [(addr, bal) for addr, bal in zip(holders, balances) if bal > 0]        *)
RECURSIVE PositivePairs(_, _)
PositivePairs(holders, balances) ==
    IF Len(holders) = 0 \/ Len(balances) = 0 THEN <<>>
    ELSE (IF Greater(balances[1], Zero) THEN << <<holders[1], balances[1]>> >> ELSE <<>>)
         \o PositivePairs(Tail(holders), Tail(balances))

(* list.sort(key=lambda x: x[1], reverse=True): descending by balance,     *)
(* pairs of equal balance kept in their order (the sort is stable).        *)
InsertDescending(sorted, pair) ==
    LET k == Cardinality({ i \in 1..Len(sorted) : ~Greater(pair[2], sorted[i][2]) })
    IN  SubSeq(sorted, 1, k) \o <<pair>> \o SubSeq(sorted, k + 1, Len(sorted))

RECURSIVE SortDescending(_)
SortDescending(pairs) ==
    IF Len(pairs) = 0 THEN <<>>
    ELSE InsertDescending(SortDescending(SubSeq(pairs, 1, Len(pairs) - 1)),
                          pairs[Len(pairs)])

(* get_top from the balances on.                                           *)
TopOf(holders, balances, n) ==
    PySlicePrefix(SortDescending(PositivePairs(holders, balances)), n)

(* [(addr, bal, date if isinstance(date, str) else "Error")                *)
(*  for (addr, bal), date in zip(top, dates)]                              *)
WithDates(top, dates) ==
    [i \in 1..Min(Len(top), Len(dates)) |->
        <<top[i][1], top[i][2],
          IF IsInstance(dates[i], "str") THEN dates[i].str ELSE ErrorMarker>>]

(* get_token_info.  The four contract functions it calls, in the order of  *)
(* the gather's arguments, and what each may answer.                       *)
MetadataCalls == <<"name", "symbol", "totalSupply", "decimals">>

TokenName == <<"T", "o", "k", "e", "n">>
TokenSymbol == <<"T", "K", "N">>
TotalSupplies == {0, 50}

MetadataAnswers(function, decimals) ==
    IF function = "name" THEN {StrResult(TokenName)}
    ELSE IF function = "symbol" THEN {StrResult(TokenSymbol)}
    ELSE IF function = "totalSupply" THEN { IntResult(s) : s \in TotalSupplies }
    ELSE {IntResult(decimals)}

(* The dict get_token_info returns from the four values gather unpacked.   *)
TokenInfo(values) ==
    [name |-> values[1].str, symbol |-> values[2].str,
     totalSupply |-> DisplayBalance(values[3].val, values[4].val),
     decimals |-> values[4].val]

(* asyncio.gather without return_exceptions: the exception of the member   *)
(* that failed first goes to the awaiter; the other members run on.        *)
FirstException(tasks) ==
    LET failed == { i \in 1..Len(tasks) : tasks[i].result.type = "Exception" }
        first == CHOOSE i \in failed : \A j \in failed : tasks[i].finished <= tasks[j].finished
    IN  tasks[first].result

----------------------------------------------------------------------------
(* Requests.  One record per top-level call of the facade:                 *)
(*   kind         the coroutine called                                     *)
(*   address      get_balance's argument                                   *)
(*   addresses    get_balance_batch's argument                             *)
(*   n            the argument of get_top and get_top_with_transactions    *)
(*   pc           where the coroutine is suspended                         *)
(*   decimals     get_balance_batch's local decimals                       *)
(*   wake         when get_token_holders' sleep ends                       *)
(*   response     the explorer's answer to get_token_holders               *)
(*   holders      get_top's local holders                                  *)
(*   tasks        the contract calls gathered (balanceOf calls, or the     *)
(*                four of get_token_info), one record per call; a          *)
(*                member's finished is its rank among the members of its   *)
(*                gather in order of completion (0 while it runs)          *)
(*   top          get_top's return value                                   *)
(*   lookups      the get_last_transaction_date members of the gather      *)
(*   outcome      "pending", "returned" (result) or "raised" (error); the  *)
(*                float get_balance returns is held as a list of one       *)
(*   issued       the network calls this request has issued so far         *)

Pending == [type |-> "pending", val |-> 0, str |-> <<>>, exc |-> "", list |-> <<>>]

ErrInvalidAddress == "Invalid address"
ErrChecksum == "to_checksum_address: not an address"
ErrContractCall == "contract call failed"

NoResponse == [http |-> 0, json |-> FALSE, status |-> "", transactions |-> <<>>]

NewRequest(kind, address, addresses, n) ==
    [kind |-> kind, address |-> address, addresses |-> addresses, n |-> n,
     pc |-> "start", decimals |-> None, wake |-> 0,
     response |-> NoResponse, holders |-> <<>>, tasks |-> <<>>, top |-> <<>>,
     lookups |-> <<>>,
     outcome |-> "pending", result |-> <<>>, error |-> "",
     issued |-> [decimals |-> 0, balanceOf |-> 0, explorer |-> 0]]

(* A slot no request came in on.                                           *)
NoRequest == [NewRequest("none", "", <<>>, 0) EXCEPT !.pc = "done", !.outcome = "none"]

Raise(q, e) == [q EXCEPT !.pc = "done", !.outcome = "raised", !.error = e]

Return(q, v) == [q EXCEPT !.pc = "done", !.outcome = "returned", !.result = v]

(* The facade: a handler answers what the coroutine returned (FastAPI's    *)
(* 200), and turns any exception it raised into HTTPException(400) with    *)
(* the exception's text in the detail.                                     *)
HttpBadRequest == 400

FacadeResponse(q) ==
    IF q.outcome = "raised" THEN [status |-> HttpBadRequest, detail |-> q.error]
    ELSE [status |-> 200, detail |-> ""]

NumDone(members) == Cardinality({ i \in 1..Len(members) : members[i].state = "done" })

(* A gather that would never resume its awaiter.                           *)
NeverResumes(members) == FALSE

(* A gather that would return as soon as one member is done.               *)
AnyDone(members) == \E i \in 1..Len(members) : members[i].state = "done"

(* asyncio.gather returns once every member is done.                       *)
AllDone(members) == \A i \in 1..Len(members) : members[i].state = "done"

(* get_top_with_transactions once get_top has returned: the lookups are    *)
(* created and gathered; each starts with its own asyncio.sleep(0.2).      *)
GetTopWithTransactionsTail(q, t) ==
    LET members == [i \in 1..Len(q.top) |->
                      [addr |-> q.top[i][1], state |-> "sleep", wake |-> t + PacingDelay,
                       response |-> NoResponse, result |-> Pending, finished |-> 0]]
        q1 == [q EXCEPT !.lookups = members, !.pc = "gather_dates"]
    IN  IF Len(members) = 0 THEN Return(q1, WithDates(q1.top, Gather(q1.lookups)))
        ELSE q1

(* get_top once get_balance_batch has returned balances; the frame of      *)
(* get_balance_batch, its decimals and its tasks, is gone.                 *)
GetTopTail(q, balances, t) ==
    LET q1 == [q EXCEPT !.decimals = None, !.tasks = <<>>,
                        !.top = TopOf(q.holders, balances, q.n)]
    IN  IF q.kind = "get_top" THEN Return(q1, q1.top)
        ELSE GetTopWithTransactionsTail(q1, t)

(* get_balance_batch once the gather of its balanceOf calls is done.       *)
GetBalanceBatchTail(q, t) ==
    LET balances == BalanceBatchResult(Gather(q.tasks), q.decimals)
    IN  IF q.kind = "get_balance_batch" THEN Return(q, balances)
        ELSE GetTopTail(q, balances, t)

(* get_balance_batch once decimals is known: the list comprehension calls  *)
(* to_checksum_address on each address in turn, which raises on the first  *)
(* string that is no address, before any call coroutine is awaited; else   *)
(* the balanceOf calls are issued together by gather.                      *)
GetBalanceBatchBody(q, addresses, decimals, t) ==
    IF \E i \in 1..Len(addresses) : ~IsAddress(addresses[i])
    THEN Raise([q EXCEPT !.decimals = decimals], ErrChecksum)
    ELSE LET members == [i \in 1..Len(addresses) |->
                           [addr |-> ToChecksumAddress(addresses[i]), state |-> "pending",
                            result |-> Pending, finished |-> 0]]
             q1 == [q EXCEPT !.decimals = decimals, !.tasks = members,
                             !.pc = "gather_balances",
                             !.issued.balanceOf = @ + Len(addresses)]
         IN  IF Len(members) = 0 THEN GetBalanceBatchTail(q1, t) ELSE q1

(* A get_balance_batch that would issue its balanceOf calls before it has  *)
(* the decimals.                                                           *)
GetBalanceBatchHeadCallsFirst(q, addresses, cache, t) ==
    IF cache # None THEN GetBalanceBatchBody(q, addresses, cache, t)
    ELSE [q EXCEPT !.pc = "decimals_wait", !.issued.decimals = @ + 1,
                   !.issued.balanceOf = @ + Len(addresses)]

(* A get_decimals that would issue the decimals call whatever the cache    *)
(* holds.                                                                  *)
GetBalanceBatchHeadAlwaysFetches(q, addresses, cache, t) ==
    [q EXCEPT !.pc = "decimals_wait", !.issued.decimals = @ + 1]

(* get_decimals up to its await: with the cache set it returns at once,    *)
(* otherwise it issues the decimals call.                                  *)
GetBalanceBatchHead(q, addresses, cache, t) ==
    IF cache # None THEN GetBalanceBatchBody(q, addresses, cache, t)
    ELSE [q EXCEPT !.pc = "decimals_wait", !.issued.decimals = @ + 1]

BatchInput(q) == IF q.kind = "get_balance_batch" THEN q.addresses ELSE q.holders

----------------------------------------------------------------------------
(* The steps.                                                              *)

Update(r, q) == req' = [req EXCEPT ![r] = q]

(* get_balance up to its first await.                                      *)
GetBalance(r) ==
    /\ req[r].kind = "get_balance" /\ req[r].pc = "start"
    /\ IF ~IsAddress(req[r].address)
       THEN Update(r, Raise(req[r], ErrInvalidAddress))
       ELSE Update(r, [req[r] EXCEPT
                !.pc = "balance_wait",
                !.tasks = <<[addr |-> ToChecksumAddress(req[r].address), state |-> "pending",
                             result |-> Pending, finished |-> 0]>>,
                !.issued.balanceOf = @ + 1])
    /\ UNCHANGED <<decimals_cache, token_decimals, now, explorer_log>>

(* get_balance's balanceOf call completes; get_decimals follows.           *)
GetBalanceBalanceOfDone(r) ==
    /\ req[r].kind = "get_balance" /\ req[r].pc = "balance_wait"
    /\ \E res \in {IntResult(b) : b \in RawBalances} \cup {ExcResult(ErrContractCall)} :
         LET q == [req[r] EXCEPT !.tasks[1].state = "done", !.tasks[1].result = res,
                                 !.tasks[1].finished = 1]
         IN  IF IsInstance(res, "Exception") THEN Update(r, Raise(q, res.exc))
             ELSE IF decimals_cache # None
                  THEN Update(r, Return(q, <<DisplayBalance(res.val, decimals_cache)>>))
                  ELSE Update(r, [q EXCEPT !.pc = "decimals_wait",
                                           !.issued.decimals = @ + 1])
    /\ UNCHANGED <<decimals_cache, token_decimals, now, explorer_log>>

(* A get_decimals that would catch the failure of its call and leave a     *)
(* default of 0 in the cache before raising.                               *)
GetDecimalsDoneCachesDefault(r) ==
    /\ req[r].pc = "decimals_wait"
    /\ \E ok \in BOOLEAN :
         IF ~ok
         THEN /\ Update(r, Raise(req[r], ErrContractCall))
              /\ decimals_cache' = 0
         ELSE /\ decimals_cache' = token_decimals
              /\ IF req[r].kind = "get_balance"
                 THEN Update(r, Return(req[r],
                         <<DisplayBalance(req[r].tasks[1].result.val, token_decimals)>>))
                 ELSE Update(r, GetBalanceBatchBody(req[r], BatchInput(req[r]),
                                                    token_decimals, now))
    /\ UNCHANGED <<token_decimals, now, explorer_log>>

(* The decimals call get_decimals awaits completes: the cache is assigned  *)
(* and the caller goes on with the cache's value, or the call's exception  *)
(* goes up through the caller.                                             *)
GetDecimalsDone(r) ==
    /\ req[r].pc = "decimals_wait"
    /\ \E ok \in BOOLEAN :
         IF ~ok
         THEN /\ Update(r, Raise(req[r], ErrContractCall))
              /\ UNCHANGED decimals_cache
         ELSE /\ decimals_cache' = token_decimals
              /\ IF req[r].kind = "get_balance"
                 THEN Update(r, Return(req[r],
                         <<DisplayBalance(req[r].tasks[1].result.val, token_decimals)>>))
                 ELSE Update(r, GetBalanceBatchBody(req[r], BatchInput(req[r]),
                                                    token_decimals, now))
    /\ UNCHANGED <<token_decimals, now, explorer_log>>

(* get_balance_batch up to its first await.                                *)
GetBalanceBatch(r) ==
    /\ req[r].kind = "get_balance_batch" /\ req[r].pc = "start"
    /\ Update(r, GetBalanceBatchHead(req[r], req[r].addresses, decimals_cache, now))
    /\ UNCHANGED <<decimals_cache, token_decimals, now, explorer_log>>

(* One balanceOf call of a gather completes, with a balance or an error.   *)
BalanceOfDone(r, i) ==
    /\ req[r].pc = "gather_balances"
    /\ i \in 1..Len(req[r].tasks) /\ req[r].tasks[i].state = "pending"
    /\ \E res \in {IntResult(b) : b \in RawBalances} \cup {ExcResult(ErrContractCall)} :
         Update(r, [req[r] EXCEPT !.tasks[i].state = "done", !.tasks[i].result = res,
                                  !.tasks[i].finished = NumDone(req[r].tasks) + 1])
    /\ UNCHANGED <<decimals_cache, token_decimals, now, explorer_log>>

(* The gather of the balanceOf calls is done: get_balance_batch resumes.   *)
GatherBalancesDone(r) ==
    /\ req[r].pc = "gather_balances" /\ AllDone(req[r].tasks)
    /\ Update(r, GetBalanceBatchTail(req[r], now))
    /\ UNCHANGED <<decimals_cache, token_decimals, now, explorer_log>>

(* get_top or get_top_with_transactions up to get_token_holders' sleep.    *)
GetTop(r) ==
    /\ req[r].kind \in {"get_top", "get_top_with_transactions"} /\ req[r].pc = "start"
    /\ Update(r, [req[r] EXCEPT !.pc = "holders_sleep", !.wake = now + PacingDelay])
    /\ UNCHANGED <<decimals_cache, token_decimals, now, explorer_log>>

(* get_token_holders' sleep is over: the GET is sent.                      *)
GetTokenHoldersSend(r) ==
    /\ req[r].pc = "holders_sleep" /\ now >= req[r].wake
    /\ Update(r, [req[r] EXCEPT !.pc = "holders_wait", !.issued.explorer = @ + 1])
    /\ explorer_log' = Append(explorer_log, now)
    /\ UNCHANGED <<decimals_cache, token_decimals, now>>

(* The explorer answers get_token_holders; get_top truncates the list and  *)
(* calls get_balance_batch.                                                *)
GetTokenHoldersDone(r) ==
    /\ req[r].pc = "holders_wait"
    /\ \E resp \in ExplorerResponses(HolderTxLists) :
       \E out \in TokenHoldersOutcomes(resp) :
         LET q == [req[r] EXCEPT !.response = resp]
         IN  IF IsInstance(out, "Exception") THEN Update(r, Raise(q, out.exc))
             ELSE LET holders == PySlicePrefix(out.list, q.n)
                  IN  Update(r, GetBalanceBatchHead([q EXCEPT !.holders = holders],
                                                    holders, decimals_cache, now))
    /\ UNCHANGED <<decimals_cache, token_decimals, now, explorer_log>>

(* The sleep of one get_last_transaction_date is over: its GET is sent.    *)
GetLastTransactionDateSend(r, i) ==
    /\ req[r].pc = "gather_dates"
    /\ i \in 1..Len(req[r].lookups)
    /\ req[r].lookups[i].state = "sleep" /\ now >= req[r].lookups[i].wake
    /\ Update(r, [req[r] EXCEPT !.lookups[i].state = "sent", !.issued.explorer = @ + 1])
    /\ explorer_log' = Append(explorer_log, now)
    /\ UNCHANGED <<decimals_cache, token_decimals, now>>

(* The explorer answers one get_last_transaction_date.                     *)
GetLastTransactionDateDone(r, i) ==
    /\ req[r].pc = "gather_dates"
    /\ i \in 1..Len(req[r].lookups) /\ req[r].lookups[i].state = "sent"
    /\ \E resp \in ExplorerResponses(ActivityTxLists) :
         Update(r, [req[r] EXCEPT !.lookups[i].state = "done",
                                  !.lookups[i].response = resp,
                                  !.lookups[i].result = LastTransactionDate(resp),
                                  !.lookups[i].finished = NumDone(req[r].lookups) + 1])
    /\ UNCHANGED <<decimals_cache, token_decimals, now, explorer_log>>

(* The gather of the lookups is done: get_top_with_transactions returns.   *)
GatherDatesDone(r) ==
    /\ req[r].pc = "gather_dates" /\ AllDone(req[r].lookups)
    /\ Update(r, Return(req[r], WithDates(req[r].top, Gather(req[r].lookups))))
    /\ UNCHANGED <<decimals_cache, token_decimals, now, explorer_log>>

(* get_token_info up to its await: gather is given the four calls.         *)
GetTokenInfo(r) ==
    /\ req[r].kind = "get_token_info" /\ req[r].pc = "start"
    /\ Update(r, [req[r] EXCEPT
             !.pc = "gather_info",
             !.tasks = [i \in 1..Len(MetadataCalls) |->
                          [addr |-> MetadataCalls[i], state |-> "pending",
                           result |-> Pending, finished |-> 0]]])
    /\ UNCHANGED <<decimals_cache, token_decimals, now, explorer_log>>

(* One of get_token_info's calls completes, with its answer or an error.   *)
MetadataCallDone(r, i) ==
    /\ req[r].pc = "gather_info"
    /\ i \in 1..Len(req[r].tasks) /\ req[r].tasks[i].state = "pending"
    /\ \E res \in MetadataAnswers(req[r].tasks[i].addr, token_decimals)
                   \cup {ExcResult(ErrContractCall)} :
         Update(r, [req[r] EXCEPT !.tasks[i].state = "done", !.tasks[i].result = res,
                                  !.tasks[i].finished = NumDone(req[r].tasks) + 1])
    /\ UNCHANGED <<decimals_cache, token_decimals, now, explorer_log>>

(* A get_token_info that would keep the decimals it fetched in the cache.  *)
GatherInfoDoneCachesDecimals(r) ==
    /\ req[r].pc = "gather_info"
    /\ IF \E i \in 1..Len(req[r].tasks) : req[r].tasks[i].result.type = "Exception"
       THEN /\ Update(r, Raise(req[r], FirstException(req[r].tasks).exc))
            /\ UNCHANGED decimals_cache
       ELSE /\ AllDone(req[r].tasks)
            /\ Update(r, Return(req[r], <<TokenInfo(Gather(req[r].tasks))>>))
            /\ decimals_cache' = req[r].tasks[4].result.val
    /\ UNCHANGED <<token_decimals, now, explorer_log>>

(* get_token_info resumes: with the first exception as soon as a member    *)
(* has failed (the members still running are not awaited by anyone and     *)
(* touch no state), else with the four values once all are done.           *)
GatherInfoDone(r) ==
    /\ req[r].pc = "gather_info"
    /\ IF \E i \in 1..Len(req[r].tasks) : req[r].tasks[i].result.type = "Exception"
       THEN Update(r, Raise(req[r], FirstException(req[r].tasks).exc))
       ELSE /\ AllDone(req[r].tasks)
            /\ Update(r, Return(req[r], <<TokenInfo(Gather(req[r].tasks))>>))
    /\ UNCHANGED <<decimals_cache, token_decimals, now, explorer_log>>

(* The sleeps in progress end at these times.                              *)
Wakes ==
    { req[r].wake : r \in { x \in Req : req[x].pc = "holders_sleep" } }
    \cup UNION { { req[r].lookups[i].wake :
                     i \in { j \in 1..Len(req[r].lookups) : req[r].lookups[j].state = "sleep" } } :
                 r \in { x \in Req : req[x].pc = "gather_dates" } }

(* Time passes while some coroutine sleeps; the loop runs a timer when it  *)
(* is due.  A network exchange is taken to last no time, the least it can. *)
Tick ==
    /\ Wakes # {} /\ \A w \in Wakes : w > now
    /\ now' = now + 1
    /\ UNCHANGED <<decimals_cache, token_decimals, req, explorer_log>>

----------------------------------------------------------------------------
(* Specifications.                                                         *)

BatchInputs == UNION { [1..k -> AddrStrings] : k \in 0..MaxBatch }

TopInputs == (0 - 1)..MaxN

InitCommon ==
    /\ decimals_cache = None
    /\ token_decimals \in 0..MaxDecimals
    /\ now = 0
    /\ explorer_log = <<>>

(* One get_balance_batch call, of any input, on its own.                   *)
InitBatch ==
    /\ InitCommon
    /\ \E l \in BatchInputs :
         req = [r \in Req |-> IF r = 1 THEN NewRequest("get_balance_batch", "", l, 0)
                              ELSE NoRequest]

NextBatch ==
    \/ \E r \in Req : GetBalanceBatch(r)
    \/ \E r \in Req : GetDecimalsDone(r)
    \/ \E r \in Req : \E i \in DOMAIN req[r].tasks : BalanceOfDone(r, i)
    \/ \E r \in Req : GatherBalancesDone(r)

SpecBatch == InitBatch /\ [][NextBatch]_vars

(* One get_top or get_top_with_transactions call, of any n, on its own.    *)
InitTop ==
    /\ InitCommon
    /\ \E k \in {"get_top", "get_top_with_transactions"}, n \in TopInputs :
         req = [r \in Req |-> IF r = 1 THEN NewRequest(k, "", <<>>, n) ELSE NoRequest]

NextTop ==
    \/ \E r \in Req : GetTop(r)
    \/ \E r \in Req : GetTokenHoldersSend(r)
    \/ \E r \in Req : GetTokenHoldersDone(r)
    \/ \E r \in Req : GetDecimalsDone(r)
    \/ \E r \in Req : \E i \in DOMAIN req[r].tasks : BalanceOfDone(r, i)
    \/ \E r \in Req : GatherBalancesDone(r)
    \/ \E r \in Req : \E i \in DOMAIN req[r].lookups : GetLastTransactionDateSend(r, i)
    \/ \E r \in Req : \E i \in DOMAIN req[r].lookups : GetLastTransactionDateDone(r, i)
    \/ \E r \in Req : GatherDatesDone(r)
    \/ Tick

SpecTop == InitTop /\ [][NextTop]_vars

(* Concurrent requests: one request of any kind in slot 1, and in every   *)
(* other slot a balance request that runs beside it and shares the cache.  *)
Requests ==
    { NewRequest("get_balance", a, <<>>, 0) : a \in AddrStrings }
    \cup { NewRequest("get_balance_batch", "", l, 0) :
           l \in { <<>>, <<"0xaa">>, <<"0xaa", "0xBb">>, <<"not-an-address", "0xBb">> } }
    \cup { NewRequest("get_top", "", <<>>, 1) }

BalanceRequests ==
    { NewRequest("get_balance", a, <<>>, 0) : a \in {"0xaa", "not-an-address"} }
    \cup { NewRequest("get_balance_batch", "", <<"0xBb">>, 0) }

Init ==
    /\ InitCommon
    /\ req \in [Req -> Requests \cup BalanceRequests]
    /\ \A r \in Req : r # 1 => req[r] \in BalanceRequests

Next ==
    \/ \E r \in Req : GetBalance(r)
    \/ \E r \in Req : GetBalanceBalanceOfDone(r)
    \/ \E r \in Req : GetDecimalsDone(r)
    \/ \E r \in Req : GetBalanceBatch(r)
    \/ \E r \in Req : \E i \in DOMAIN req[r].tasks : BalanceOfDone(r, i)
    \/ \E r \in Req : GatherBalancesDone(r)
    \/ \E r \in Req : GetTop(r)
    \/ \E r \in Req : GetTokenHoldersSend(r)
    \/ \E r \in Req : GetTokenHoldersDone(r)
    \/ Tick

Spec == Init /\ [][Next]_vars

(* A request of any kind in slot 1, on its own or beside one balance       *)
(* request in slot 2 that shares the cache and the loop with it.           *)
AllRequests ==
    Requests
    \cup { NewRequest("get_top_with_transactions", "", <<>>, 1) }
    \cup { NewRequest("get_token_info", "", <<>>, 0) }

InitAll ==
    /\ InitCommon
    /\ \E q \in AllRequests, o \in BalanceRequests \cup {NoRequest} :
         req = [r \in Req |-> IF r = 1 THEN q ELSE IF r = 2 THEN o ELSE NoRequest]

NextAll ==
    \/ Next
    \/ \E r \in Req : \E i \in DOMAIN req[r].lookups : GetLastTransactionDateSend(r, i)
    \/ \E r \in Req : \E i \in DOMAIN req[r].lookups : GetLastTransactionDateDone(r, i)
    \/ \E r \in Req : GatherDatesDone(r)
    \/ \E r \in Req : GetTokenInfo(r)
    \/ \E r \in Req : \E i \in DOMAIN req[r].tasks : MetadataCallDone(r, i)
    \/ \E r \in Req : GatherInfoDone(r)

SpecAll == InitAll /\ [][NextAll]_vars

(* The same, with the loop and the upstream making progress: a step that   *)
(* can be taken (a call in flight completing, a timer due firing, a ready  *)
(* coroutine resuming, time passing while all sleep) is taken in the end.  *)
SpecAllFair == SpecAll /\ WF_vars(NextAll)

----------------------------------------------------------------------------
(* Properties.                                                             *)

Finished(r, kind) == req[r].kind = kind /\ req[r].pc = "done"

(* What position i of a batch is to hold: the balance its own balanceOf    *)
(* call answered, over ten to the token's decimals, or 0 when that call    *)
(* failed.                                                                 *)
OwnBalance(q, i) ==
    IF q.tasks[i].result.type = "int"
    THEN DisplayBalance(q.tasks[i].result.val, token_decimals)
    ELSE Zero

(* C1: every get_balance_batch call whose decimals fetch succeeded returns *)
(* a list as long as its input whose position i holds the balance of the   *)
(* i-th address, whatever the order its balanceOf calls completed in.      *)
C1_BatchReturnsInInputOrder ==
    \A r \in Req :
        (Finished(r, "get_balance_batch") /\ req[r].decimals # None)
        => /\ req[r].outcome = "returned"
           /\ Len(req[r].result) = Len(req[r].addresses)
           /\ Len(req[r].tasks) = Len(req[r].addresses)
           /\ \A i \in 1..Len(req[r].addresses) :
                /\ req[r].tasks[i].addr = ToChecksumAddress(req[r].addresses[i])
                /\ req[r].result[i] = OwnBalance(req[r], i)

(* C2: a get_balance_batch call given a string that is no address (its     *)
(* decimals fetch succeeding) still returns a list as long as its input,   *)
(* with 0 at the position of every such string.                            *)
C2_InvalidAddressYieldsZero ==
    \A r \in Req :
        (/\ Finished(r, "get_balance_batch") /\ req[r].decimals # None
         /\ \E i \in 1..Len(req[r].addresses) : req[r].addresses[i] = "not-an-address")
        => /\ req[r].outcome = "returned"
           /\ Len(req[r].result) = Len(req[r].addresses)
           /\ \A i \in 1..Len(req[r].addresses) :
                req[r].addresses[i] = "not-an-address" => req[r].result[i] = Zero

RECURSIVE SumDecimalsCalls(_)
SumDecimalsCalls(n) ==
    IF n = 0 THEN 0 ELSE req[n].issued.decimals + SumDecimalsCalls(n - 1)

(* C3: over the whole execution get_decimals issues at most one decimals   *)
(* contract call, however many requests need decimals at once.             *)
C3_SingleFlightDecimals == SumDecimalsCalls(NumReq) <= 1

(* C4: what get_top(n) returns has at most n records, each of balance > 0, *)
(* in non-increasing order of balance.                                     *)
C4_TopBoundedPositiveSorted ==
    \A r \in Req :
        (Finished(r, "get_top") /\ req[r].outcome = "returned")
        => /\ Len(req[r].result) <= req[r].n
           /\ \A i \in 1..Len(req[r].result) : req[r].result[i][2].num > 0
           /\ \A i \in 1..Len(req[r].result) - 1 :
                ~Greater(req[r].result[i + 1][2], req[r].result[i][2])

(* The three failures of an explorer exchange: HTTP status not 200, body   *)
(* not parseable, payload status not "success".                            *)
UpstreamFailure(resp) == resp.http # 200 \/ ~resp.json \/ resp.status # "success"

(* C5: get_token_holders and get_last_transaction_date both end in an      *)
(* error, never a return value, when the exchange fails in one of the      *)
(* three ways.                                                             *)
C5_ExplorerFailureRaises ==
    \A r \in Req :
        /\ (/\ req[r].kind \in {"get_top", "get_top_with_transactions"}
            /\ req[r].pc \notin {"start", "holders_sleep", "holders_wait"}
            /\ UpstreamFailure(req[r].response))
           => req[r].outcome = "raised"
        /\ \A i \in 1..Len(req[r].lookups) :
             (req[r].lookups[i].state = "done" /\ UpstreamFailure(req[r].lookups[i].response))
             => req[r].lookups[i].result.type = "Exception"

(* C6: any two GETs sent to the explorer are at least the pacing delay     *)
(* apart.                                                                  *)
C6_ExplorerRequestsSpaced ==
    \A i, j \in 1..Len(explorer_log) :
        i < j => explorer_log[j] - explorer_log[i] >= PacingDelay

IsDateString(s) ==
    /\ Len(s) = 10
    /\ s[5] = "-" /\ s[8] = "-"
    /\ \A i \in {1, 2, 3, 4, 6, 7, 9, 10} : IsDigit(s[i])

(* C7: what get_top_with_transactions returns has the addresses and        *)
(* balances of its get_top result, in that order; the third field of each  *)
(* record is what the lookup of that record's own address gave, whatever   *)
(* the order the lookups completed in, and is a YYYY-MM-DD date,           *)
(* "No transactions found" or "Error".                                     *)
C7_RecordsFollowTop ==
    \A r \in Req :
        (Finished(r, "get_top_with_transactions") /\ req[r].outcome = "returned")
        => /\ Len(req[r].result) = Len(req[r].top)
           /\ Len(req[r].lookups) = Len(req[r].top)
           /\ \A i \in 1..Len(req[r].result) :
                /\ req[r].result[i][1] = req[r].top[i][1]
                /\ req[r].result[i][2] = req[r].top[i][2]
                /\ req[r].lookups[i].addr = req[r].top[i][1]
                /\ req[r].result[i][3] =
                     (IF req[r].lookups[i].result.type = "str"
                      THEN req[r].lookups[i].result.str ELSE ErrorMarker)
                /\ \/ IsDateString(req[r].result[i][3])
                   \/ req[r].result[i][3] = NoTransactionsFound
                   \/ req[r].result[i][3] = ErrorMarker

(* Two records came back, the second's lookup having completed first; one  *)
(* carries a date and the other a marker.                                  *)
C7_Witness ==
    \E r \in Req :
        /\ Finished(r, "get_top_with_transactions") /\ req[r].outcome = "returned"
        /\ Len(req[r].result) = 2
        /\ req[r].lookups[2].finished = 1
        /\ IsDateString(req[r].result[1][3])
        /\ req[r].result[2][3] = ErrorMarker

NoCalls == [decimals |-> 0, balanceOf |-> 0, explorer |-> 0]

(* C8: get_balance given a string that is no address raises the invalid    *)
(* address error in its first step, having issued no call, and that step   *)
(* leaves the decimals cache as it was; it issues no call afterwards.      *)
C8_InvalidAddressRejectedFirst ==
    /\ [](\A r \in Req :
            (req[r].kind = "get_balance" /\ req[r].address = "not-an-address")
            => /\ req[r].issued = NoCalls
               /\ req[r].pc \in {"start", "done"}
               /\ req[r].pc = "done"
                  => (req[r].outcome = "raised" /\ req[r].error = ErrInvalidAddress))
    /\ [][\A r \in Req :
            (/\ req[r].kind = "get_balance" /\ req[r].address = "not-an-address"
             /\ req[r].pc = "start" /\ req'[r].pc # "start")
            => decimals_cache' = decimals_cache]_vars

(* get_balance has rejected a string that is no address while another      *)
(* request's decimals call is in flight.                                   *)
C8_Witness ==
    \E r, o \in Req :
        /\ req[r].kind = "get_balance" /\ req[r].address = "not-an-address"
        /\ req[r].outcome = "raised"
        /\ req[o].pc = "decimals_wait"

(* C9: a get_balance_batch call over addresses (its decimals fetch         *)
(* succeeding) returns a list as long as its input in which a position     *)
(* whose balanceOf call failed holds 0 and every other position holds the  *)
(* balance of its own address.                                             *)
C9_FailedMemberYieldsZero ==
    \A r \in Req :
        (/\ Finished(r, "get_balance_batch") /\ req[r].decimals # None
         /\ \A i \in 1..Len(req[r].addresses) : req[r].addresses[i] # "not-an-address")
        => /\ req[r].outcome = "returned"
           /\ Len(req[r].result) = Len(req[r].addresses)
           /\ Len(req[r].tasks) = Len(req[r].addresses)
           /\ \A i \in 1..Len(req[r].addresses) :
                /\ req[r].tasks[i].addr = ToChecksumAddress(req[r].addresses[i])
                /\ req[r].tasks[i].result.type = "Exception" => req[r].result[i] = Zero
                /\ req[r].tasks[i].result.type = "int" =>
                     req[r].result[i] =
                        DisplayBalance(req[r].tasks[i].result.val, token_decimals)

(* A batch of two returned: the first call failed, after the second had    *)
(* answered a balance that is not zero.                                    *)
C9_Witness ==
    \E r \in Req :
        /\ Finished(r, "get_balance_batch") /\ req[r].outcome = "returned"
        /\ Len(req[r].tasks) = 2
        /\ req[r].tasks[1].result.type = "Exception"
        /\ req[r].tasks[2].result.type = "int" /\ req[r].tasks[2].result.val > 0
        /\ req[r].tasks[2].finished = 1
        /\ req[r].result[1] = Zero /\ req[r].result[2].num > 0

(* A lookup failed: its exchange failed in one of the three ways, or the   *)
(* coroutine raised.                                                       *)
LookupFailed(m) == UpstreamFailure(m.response) \/ m.result.type = "Exception"

(* C10: in what get_top_with_transactions returns, a record whose lookup   *)
(* failed carries "Error", and a record carries "No transactions found"    *)
(* only when its lookup succeeded with no transaction.                     *)
C10_FailedLookupIsError ==
    \A r \in Req :
        (Finished(r, "get_top_with_transactions") /\ req[r].outcome = "returned")
        => \A i \in 1..Len(req[r].result) :
             /\ LookupFailed(req[r].lookups[i]) => req[r].result[i][3] = ErrorMarker
             /\ req[r].result[i][3] = NoTransactionsFound
                => (/\ ~LookupFailed(req[r].lookups[i])
                    /\ req[r].lookups[i].response.transactions = <<>>)

(* The step of request r calls get_decimals: get_balance_batch does at its *)
(* start, get_balance once its balanceOf call has answered, get_top once   *)
(* get_token_holders has returned.                                         *)
CallsGetDecimals(r) ==
    \/ /\ req[r].kind = "get_balance_batch"
       /\ req[r].pc = "start" /\ req'[r].pc # "start"
    \/ /\ req[r].kind = "get_balance"
       /\ req[r].pc = "balance_wait" /\ req'[r].pc # "balance_wait"
       /\ req'[r].tasks[1].result.type = "int"
    \/ /\ req[r].kind \in {"get_top", "get_top_with_transactions"}
       /\ req[r].pc = "holders_wait" /\ req'[r].pc # "holders_wait"
       /\ req'[r].outcome # "raised"

(* The step of request r is the failure of the decimals call it awaits:    *)
(* it raises without having got a decimals (get_balance_batch may raise    *)
(* on an address once it has).                                             *)
DecimalsFetchFails(r) ==
    /\ req[r].pc = "decimals_wait"
    /\ req'[r].pc = "done" /\ req'[r].outcome = "raised"
    /\ req'[r].decimals = None

(* C11: the decimals cache holds nothing or the contract's decimals, never *)
(* an error; a failed decimals fetch leaves the cache as it was and raises *)
(* in its caller; and a call of get_decimals that finds the cache unset    *)
(* issues a decimals call of its own.                                      *)
C11_CacheNeverHoldsError ==
    /\ [](decimals_cache \in {None, token_decimals})
    /\ [][\A r \in Req :
            /\ DecimalsFetchFails(r)
               => /\ decimals_cache' = decimals_cache
                  /\ req'[r].error = ErrContractCall
                  /\ req'[r].result = <<>>
            /\ (CallsGetDecimals(r) /\ decimals_cache = None)
               => /\ req'[r].pc = "decimals_wait"
                  /\ req'[r].issued.decimals = req[r].issued.decimals + 1]_vars

(* One request's decimals fetch failed and the cache is still unset while  *)
(* a later call of get_decimals awaits a decimals call of its own.         *)
C11_Witness ==
    \E r, o \in Req :
        /\ req[r].kind = "get_balance_batch"
        /\ req[r].outcome = "raised" /\ req[r].error = ErrContractCall
        /\ decimals_cache = None
        /\ req[o].kind = "get_balance" /\ req[o].pc = "decimals_wait"
        /\ req[o].issued.decimals = 1

(* C12: a get_balance call on a valid address whose balanceOf call         *)
(* answered a balance has asked balanceOf about the checksummed address    *)
(* and, unless its own decimals fetch failed, has returned that balance    *)
(* over ten to the power of the decimals the cache holds.                  *)
C12_BalanceIsRawOverDecimals ==
    \A r \in Req :
        (/\ Finished(r, "get_balance") /\ req[r].address # "not-an-address"
         /\ req[r].tasks[1].result.type = "int")
        => /\ req[r].tasks[1].addr = ToChecksumAddress(req[r].address)
           /\ \/ /\ req[r].outcome = "raised" /\ req[r].error = ErrContractCall
                 /\ req[r].issued.decimals = 1
              \/ /\ req[r].outcome = "returned"
                 /\ decimals_cache # None
                 /\ Len(req[r].result) = 1
                 /\ req[r].result[1].num * Pow10(decimals_cache)
                      = req[r].tasks[1].result.val * req[r].result[1].den

(* get_balance("0xaa") returned 5/10: the balance 5 of "0xAa" over ten to  *)
(* the one decimal the cache holds.                                        *)
C12_Witness ==
    \E r \in Req :
        /\ Finished(r, "get_balance") /\ req[r].outcome = "returned"
        /\ req[r].address = "0xaa" /\ req[r].tasks[1].addr = "0xAa"
        /\ req[r].tasks[1].result.val = 5
        /\ decimals_cache = 1
        /\ req[r].result = <<[num |-> 5, den |-> 10]>>

(* C13: a get_top or get_top_with_transactions call with argument n has    *)
(* issued at most n balanceOf calls, for every integer n; for n below 0    *)
(* that is read as none at all, the least a count can be.                  *)
C13_BalanceCallsAtMostN ==
    \A r \in Req :
        req[r].kind \in {"get_top", "get_top_with_transactions"}
        => req[r].issued.balanceOf <= Max(req[r].n, 0)

(* C14: a call of get_decimals that finds the cache set issues no decimals *)
(* call and hands its caller the cached value in the same step, and the    *)
(* cache, once set, never changes.                                         *)
C14_CachedDecimalsReused ==
    /\ [][decimals_cache # None => decimals_cache' = decimals_cache]_vars
    /\ [][\A r \in Req :
            (CallsGetDecimals(r) /\ decimals_cache # None)
            => /\ req'[r].issued.decimals = req[r].issued.decimals
               /\ req'[r].pc # "decimals_wait"
               /\ req[r].kind = "get_balance_batch"
                  => req'[r].decimals = decimals_cache
               /\ req[r].kind = "get_balance"
                  => /\ req'[r].outcome = "returned"
                     /\ req'[r].result[1].num * Pow10(decimals_cache)
                          = req'[r].tasks[1].result.val * req'[r].result[1].den]_vars

(* The cache was set by one request's decimals call, and a                 *)
(* get_balance_batch has since returned balances over the cached decimals  *)
(* without a decimals call of its own.                                     *)
C14_Witness ==
    \E r, o \in Req :
        /\ req[o].issued.decimals = 1 /\ req[o].outcome = "returned"
        /\ decimals_cache = 1
        /\ Finished(r, "get_balance_batch") /\ req[r].outcome = "returned"
        /\ req[r].issued.decimals = 0 /\ req[r].decimals = 1
        /\ Len(req[r].result) > 0 /\ req[r].result[1].den = 10

(* C15: the members of a batch, the balanceOf calls of get_balance_batch   *)
(* and the lookups of get_top_with_transactions, are all started in the    *)
(* step that creates the batch, one per input in input order; a member     *)
(* that completes or fails leaves the others as they are and no lookup     *)
(* sleeps past its time; and the batch is left only once every member is   *)
(* done.                                                                   *)
C15_BatchMembersRunTogether ==
    /\ [](\A r \in Req :
            /\ req[r].pc = "gather_balances"
               => /\ Len(req[r].tasks) = Len(req[r].holders)
                  /\ req[r].issued.balanceOf = Len(req[r].tasks)
                  /\ \A i \in 1..Len(req[r].tasks) :
                       /\ req[r].tasks[i].addr = ToChecksumAddress(req[r].holders[i])
                       /\ req[r].tasks[i].state \in {"pending", "done"}
            /\ req[r].pc = "gather_dates"
               => /\ Len(req[r].lookups) = Len(req[r].top)
                  /\ \A i \in 1..Len(req[r].lookups) :
                       /\ req[r].lookups[i].addr = req[r].top[i][1]
                       /\ req[r].lookups[i].wake = req[r].lookups[1].wake
                       /\ req[r].lookups[i].state = "sleep"
                          => now <= req[r].lookups[i].wake)
    /\ [][\A r \in Req :
            /\ (req[r].pc = "gather_balances" /\ req'[r].pc # "gather_balances")
               => \A i \in 1..Len(req[r].tasks) : req[r].tasks[i].state = "done"
            /\ (req[r].pc = "gather_dates" /\ req'[r].pc # "gather_dates")
               => /\ \A i \in 1..Len(req[r].lookups) : req[r].lookups[i].state = "done"
                  /\ req'[r].outcome = "returned"
                  /\ Len(req'[r].result) = Len(req[r].lookups)
            /\ (req[r].pc = "gather_balances" /\ req'[r].pc = "gather_balances")
               => \A i, j \in 1..Len(req[r].tasks) :
                    (req[r].tasks[i].state # "done" /\ req'[r].tasks[i].state = "done"
                     /\ j # i)
                    => req'[r].tasks[j] = req[r].tasks[j]
            /\ (req[r].pc = "gather_dates" /\ req'[r].pc = "gather_dates")
               => \A i, j \in 1..Len(req[r].lookups) :
                    (req[r].lookups[i].state # "done" /\ req'[r].lookups[i].state = "done"
                     /\ j # i)
                    => req'[r].lookups[j] = req[r].lookups[j]]_vars

(* The first of two lookups has failed while the second, started with it,  *)
(* is still awaiting the explorer; the balance batch before them was left  *)
(* with both its calls done.                                               *)
C15_Witness ==
    \E r \in Req :
        /\ req[r].pc = "gather_dates" /\ Len(req[r].lookups) = 2
        /\ req[r].lookups[1].state = "done"
        /\ req[r].lookups[1].result.type = "Exception"
        /\ req[r].lookups[2].state = "sent"
        /\ req[r].issued.balanceOf = 2

(* C16: get_balance_batch has its decimals before it issues any balanceOf  *)
(* call, and divides every balance of the call by ten to that one          *)
(* decimals; when its decimals fetch fails the call raises the fetch's     *)
(* error and no balanceOf call is issued.                                  *)
C16_DecimalsBeforeBalances ==
    \A r \in Req :
        req[r].kind = "get_balance_batch"
        => /\ req[r].pc = "decimals_wait"
              => (req[r].issued.balanceOf = 0 /\ req[r].tasks = <<>>)
           /\ req[r].issued.balanceOf > 0 => req[r].decimals = token_decimals
           /\ (req[r].pc = "done" /\ req[r].decimals = None)
              => /\ req[r].outcome = "raised" /\ req[r].error = ErrContractCall
                 /\ req[r].issued.balanceOf = 0 /\ req[r].tasks = <<>>
                 /\ req[r].result = <<>>
           /\ req[r].outcome = "returned"
              => /\ req[r].decimals # None
                 /\ \A i \in 1..Len(req[r].result) :
                      \/ req[r].tasks[i].result.type # "int"
                      \/ req[r].result[i].num * Pow10(req[r].decimals)
                           = req[r].tasks[i].result.val * req[r].result[i].den

(* A get_balance_batch over two addresses raised the error of its decimals *)
(* call, having issued that call alone.                                    *)
C16_Witness ==
    \E r \in Req :
        /\ Finished(r, "get_balance_batch") /\ Len(req[r].addresses) = 2
        /\ \A i \in 1..2 : req[r].addresses[i] # "not-an-address"
        /\ req[r].outcome = "raised" /\ req[r].error = ErrContractCall
        /\ req[r].issued = [decimals |-> 1, balanceOf |-> 0, explorer |-> 0]

(* C17: a get_top or get_top_with_transactions call whose holder listing   *)
(* failed (HTTP status, JSON or payload status) raises, having sent the    *)
(* one GET of the listing and issued no decimals call, no balanceOf call   *)
(* and no lookup; and get_top_with_transactions creates one lookup per     *)
(* record of get_top's result, for that record's address, and sends no     *)
(* other GET.                                                              *)
C17_NoWorkAfterFailedListing ==
    \A r \in Req :
        req[r].kind \in {"get_top", "get_top_with_transactions"}
        => /\ (req[r].response # NoResponse /\ UpstreamFailure(req[r].response))
              => /\ req[r].pc = "done" /\ req[r].outcome = "raised"
                 /\ req[r].error \in {ErrHttp, ErrJson, ErrStatus}
                 /\ req[r].issued = [decimals |-> 0, balanceOf |-> 0, explorer |-> 1]
                 /\ req[r].tasks = <<>> /\ req[r].lookups = <<>>
           /\ Len(req[r].lookups) > 0
              => /\ req[r].kind = "get_top_with_transactions"
                 /\ Len(req[r].lookups) = Len(req[r].top)
           /\ \A i \in 1..Len(req[r].lookups) :
                req[r].lookups[i].addr = req[r].top[i][1]
           /\ req[r].issued.explorer
                <= 1 + Cardinality({ i \in 1..Len(req[r].lookups) :
                                       req[r].lookups[i].state \in {"sent", "done"} })

(* get_top_with_transactions raised on a listing whose payload status was  *)
(* not "success", with the listing's GET its only call.                    *)
C17_Witness ==
    \E r \in Req :
        /\ Finished(r, "get_top_with_transactions") /\ req[r].n = 2
        /\ req[r].response.http = 200 /\ req[r].response.json
        /\ req[r].response.status = "NOTOK"
        /\ req[r].outcome = "raised" /\ req[r].error = ErrStatus
        /\ req[r].issued.explorer = 1 /\ req[r].issued.balanceOf = 0
        /\ req[r].issued.decimals = 0

(* C18: get_token_info issues four contract calls, name, symbol,           *)
(* totalSupply and decimals, all in its first step, and no other call; it  *)
(* returns only when all four answered, what they answered, the supply     *)
(* over ten to the decimals its own call answered; it raises when one of   *)
(* them failed; and no step of it changes the decimals cache, whether the  *)
(* cache is set or not.                                                    *)
C18_TokenInfoFourCalls ==
    /\ [](\A r \in Req :
            req[r].kind = "get_token_info"
            => /\ req[r].issued = NoCalls
               /\ req[r].pc = "start" => req[r].tasks = <<>>
               /\ req[r].pc # "start"
                  => /\ Len(req[r].tasks) = 4
                     /\ req[r].tasks[1].addr = "name"
                     /\ req[r].tasks[2].addr = "symbol"
                     /\ req[r].tasks[3].addr = "totalSupply"
                     /\ req[r].tasks[4].addr = "decimals"
               /\ req[r].outcome = "returned"
                  => /\ \A i \in 1..4 : /\ req[r].tasks[i].state = "done"
                                        /\ req[r].tasks[i].result.type # "Exception"
                     /\ Len(req[r].result) = 1
                     /\ req[r].result[1].name = req[r].tasks[1].result.str
                     /\ req[r].result[1].symbol = req[r].tasks[2].result.str
                     /\ req[r].result[1].decimals = req[r].tasks[4].result.val
                     /\ req[r].result[1].totalSupply.num
                           * Pow10(req[r].tasks[4].result.val)
                        = req[r].tasks[3].result.val * req[r].result[1].totalSupply.den
               /\ req[r].outcome = "raised"
                  => /\ \E i \in 1..4 : req[r].tasks[i].result.type = "Exception"
                     /\ req[r].error = ErrContractCall /\ req[r].result = <<>>
               /\ (/\ req[r].pc = "done"
                   /\ \E i \in 1..4 : req[r].tasks[i].result.type = "Exception")
                  => req[r].outcome = "raised")
    /\ [][\A r \in Req :
            (/\ req[r].kind = "get_token_info"
             /\ req'[r].pc # req[r].pc \/ req'[r].tasks # req[r].tasks)
            => decimals_cache' = decimals_cache]_vars

(* get_token_info returned, decimals 1 and a supply of 50/10 among its     *)
(* values, while the cache is unset and a get_balance beside it is still   *)
(* waiting for the decimals call of get_decimals.                          *)
C18_Witness ==
    \E r, o \in Req :
        /\ Finished(r, "get_token_info") /\ req[r].outcome = "returned"
        /\ req[r].result[1].decimals = 1
        /\ req[r].result[1].totalSupply = [num |-> 5, den |-> 1]
        /\ decimals_cache = None
        /\ req[o].kind = "get_balance" /\ req[o].pc = "decimals_wait"

(* The request's own decimals call failed: it issued one and raised the    *)
(* call's error without a decimals (get_balance: after its balanceOf call  *)
(* had answered).                                                          *)
OwnDecimalsFailed(q) ==
    /\ q.issued.decimals = 1
    /\ q.outcome = "raised" /\ q.error = ErrContractCall /\ q.decimals = None
    /\ q.kind = "get_balance" => q.tasks[1].result.type = "int"

Raised(e) == [outcome |-> "raised", result |-> <<>>, error |-> e]

Returned(v) == [outcome |-> "returned", result |-> v, error |-> ""]

ListingError(resp) ==
    IF resp.http # 200 THEN ErrHttp ELSE IF ~resp.json THEN ErrJson ELSE ErrStatus

(* What a finished request is to have answered, from its input, from what  *)
(* the upstream answered to its own calls, and from the decimals the       *)
(* contract answers to whoever asks; nothing of any other request.         *)
OwnResult(q) ==
    IF q.kind = "get_balance"
    THEN IF ~IsAddress(q.address) THEN Raised(ErrInvalidAddress)
         ELSE IF q.tasks[1].result.type = "Exception" THEN Raised(q.tasks[1].result.exc)
         ELSE IF OwnDecimalsFailed(q) THEN Raised(ErrContractCall)
         ELSE Returned(<<DisplayBalance(q.tasks[1].result.val, token_decimals)>>)
    ELSE IF q.kind = "get_balance_batch"
    THEN IF OwnDecimalsFailed(q) THEN Raised(ErrContractCall)
         ELSE IF \E i \in 1..Len(q.addresses) : ~IsAddress(q.addresses[i])
              THEN Raised(ErrChecksum)
         ELSE Returned([i \in 1..Len(q.addresses) |->
                          IF q.tasks[i].result.type = "int"
                          THEN DisplayBalance(q.tasks[i].result.val, token_decimals)
                          ELSE Zero])
    ELSE IF q.kind = "get_token_info"
    THEN IF \E i \in 1..4 : q.tasks[i].result.type = "Exception"
         THEN Raised(ErrContractCall)
         ELSE Returned(<<[name |-> q.tasks[1].result.str,
                          symbol |-> q.tasks[2].result.str,
                          totalSupply |-> DisplayBalance(q.tasks[3].result.val,
                                                         q.tasks[4].result.val),
                          decimals |-> q.tasks[4].result.val]>>)
    ELSE IF UpstreamFailure(q.response) THEN Raised(ListingError(q.response))
    ELSE IF OwnDecimalsFailed(q) THEN Raised(ErrContractCall)
    ELSE IF q.kind = "get_top" THEN Returned(q.top)
    ELSE Returned([i \in 1..Len(q.top) |->
                     <<q.top[i][1], q.top[i][2],
                       IF q.lookups[i].result.type = "str"
                       THEN q.lookups[i].result.str ELSE ErrorMarker>>])

(* C19: what a request answers is a function of its input and of the       *)
(* upstream's answers to its own calls, the decimals being the contract's  *)
(* whether fetched by the request or found in the cache: run alone or      *)
(* beside another request, every finished request answered OwnResult, the  *)
(* candidates of get_top are a prefix of the holders its own listing       *)
(* named, and its top is computed from the answers of its own balanceOf    *)
(* calls.                                                                  *)
C19_ResultFromOwnCalls ==
    /\ [](\A r \in Req :
            /\ (req[r].pc = "done" /\ req[r].kind # "none")
               => [outcome |-> req[r].outcome, result |-> req[r].result,
                   error |-> req[r].error] = OwnResult(req[r])
            /\ (/\ req[r].kind \in {"get_top", "get_top_with_transactions"}
                /\ req[r].pc \in {"gather_balances", "gather_dates", "done"}
                /\ req[r].outcome # "raised")
               => /\ \E l \in ListsOf(HoldersOf(req[r].response.transactions)) :
                       req[r].holders = PySlicePrefix(l, req[r].n)
                  /\ req[r].issued.balanceOf = Len(req[r].holders)
                  /\ (req[r].pc # "gather_balances" /\ req[r].holders = <<>>)
                     => req[r].top = <<>>)
    /\ [][\A r \in Req :
            (/\ req[r].kind \in {"get_top", "get_top_with_transactions"}
             /\ req[r].pc = "gather_balances" /\ req'[r].pc # "gather_balances")
            => req'[r].top
                 = TopOf(req[r].holders,
                         [i \in 1..Len(req[r].tasks) |->
                            IF req[r].tasks[i].result.type = "int"
                            THEN DisplayBalance(req[r].tasks[i].result.val, token_decimals)
                            ELSE Zero],
                         req[r].n)]_vars

(* A get_balance returned 3/10 on a cache set by the request beside it,    *)
(* with no decimals call of its own, what it answers when run alone and    *)
(* its own decimals call answers 1.                                        *)
C19_Witness ==
    /\ Finished(1, "get_balance") /\ req[1].outcome = "returned"
    /\ req[1].issued.decimals = 0
    /\ req[1].tasks[1].result.val = 3
    /\ req[1].result = <<[num |-> 3, den |-> 10]>>
    /\ req[2].kind = "get_balance_batch" /\ req[2].issued.decimals = 1
    /\ req[2].outcome = "returned"

(* C20: with upstream calls that complete and a loop that runs what is     *)
(* ready, every request ends, returned or raised, and stays so, so that    *)
(* none waits for ever in a gather whose members are done; and the facade  *)
(* answers 400, with the error's text, exactly for those that raised.      *)
C20_EveryRequestAnswered ==
    <>[](\A r \in Req :
           req[r].kind # "none"
           => /\ req[r].pc = "done"
              /\ req[r].outcome \in {"returned", "raised"}
              /\ req[r].outcome = "raised"
                 => /\ FacadeResponse(req[r]).status = 400
                    /\ FacadeResponse(req[r]).detail = req[r].error
              /\ req[r].outcome = "returned"
                 => FacadeResponse(req[r]).status = 200)

(* Both requests have ended: get_top_with_transactions returned a record   *)
(* whose lookup failed, and the get_balance beside it raised on its        *)
(* address, which the facade answers with 400.                             *)
C20_Witness ==
    /\ Finished(1, "get_top_with_transactions") /\ req[1].outcome = "returned"
    /\ Len(req[1].result) = 1 /\ req[1].result[1][3] = ErrorMarker
    /\ FacadeResponse(req[1]).status = 200
    /\ Finished(2, "get_balance") /\ req[2].outcome = "raised"
    /\ FacadeResponse(req[2]) = [status |-> 400, detail |-> ErrInvalidAddress]

====
